---- MODULE Spec2Model ----
(***************************************************************************)
(* Digest scheduling and dispatch of ResearchNews                          *)
(* (backend/app/tasks.py, backend/app/email.py, backend/app/api.py).       *)
(*                                                                         *)
(* An instant is a naive UTC datetime, encoded as the number of clock      *)
(* ticks since 00:00:00 on 1 January of BaseYear.  A second holds SubSec   *)
(* ticks (Python's datetime holds 10^6 microseconds per second).           *)
(***************************************************************************)
EXTENDS Integers, Sequences, FiniteSets, TLC

\* ------------------------------------------------------------- bounds
BaseYear == 2023
NumYears == 2
SubSec == 2

\* ------------------------------------------------------------ calendar
NoTime == -1

Frequencies == {"DAILY", "WEEKLY", "MONTHLY"}
\* a frequency column may also hold NULL (the column is nullable)
FrequencyValues == Frequencies \cup {"NULL"}

TicksPerSecond == SubSec
TicksPerMinute == 60 * TicksPerSecond
TicksPerHour == 60 * TicksPerMinute
TicksPerDay == 24 * TicksPerHour

IsLeap(y) == (y % 4 = 0 /\ y % 100 # 0) \/ (y % 400 = 0)

\* calendar.monthrange(year, month)[1]
monthrange(y, m) ==
    IF m = 2 THEN (IF IsLeap(y) THEN 29 ELSE 28)
    ELSE IF m \in {4, 6, 9, 11} THEN 30 ELSE 31

DaysInYear(y) == IF IsLeap(y) THEN 366 ELSE 365

RECURSIVE DaysBeforeYear(_)
DaysBeforeYear(y) ==
    IF y <= BaseYear THEN 0 ELSE DaysBeforeYear(y - 1) + DaysInYear(y - 1)

RECURSIVE DaysBeforeMonth(_, _)
DaysBeforeMonth(y, m) ==
    IF m <= 1 THEN 0 ELSE DaysBeforeMonth(y, m - 1) + monthrange(y, m - 1)

\* date(y, m, d).toordinal(), counted from 1 January of BaseYear
toordinal(y, m, d) == DaysBeforeYear(y) + DaysBeforeMonth(y, m) + (d - 1)

RECURSIVE YearFrom(_, _)
YearFrom(y, n) ==
    IF n < DaysInYear(y) THEN [year |-> y, rem |-> n]
    ELSE YearFrom(y + 1, n - DaysInYear(y))

RECURSIVE MonthFrom(_, _, _)
MonthFrom(y, m, n) ==
    IF n < monthrange(y, m) THEN [month |-> m, rem |-> n]
    ELSE MonthFrom(y, m + 1, n - monthrange(y, m))

\* date.fromordinal(n)
fromordinal(n) ==
    LET yr == YearFrom(BaseYear, n)
        mo == MonthFrom(yr.year, 1, yr.rem)
    IN  [year |-> yr.year, month |-> mo.month, day |-> mo.rem + 1]

\* the clock fields of an instant
DateOrdinal(t) == t \div TicksPerDay
Year(t) == fromordinal(DateOrdinal(t)).year
Month(t) == fromordinal(DateOrdinal(t)).month
Day(t) == fromordinal(DateOrdinal(t)).day
Hour(t) == (t % TicksPerDay) \div TicksPerHour
Minute(t) == (t % TicksPerHour) \div TicksPerMinute
Second(t) == (t % TicksPerMinute) \div TicksPerSecond
Microsecond(t) == t % TicksPerSecond

\* datetime.combine(date, time(hour, minute, second)): microsecond is 0
combine(ord, h, mi, s) ==
    ord * TicksPerDay + h * TicksPerHour + mi * TicksPerMinute + s * TicksPerSecond

\* datetime(year, month, day, hour, minute, second)
datetime(y, m, d, h, mi, s) == combine(toordinal(y, m, d), h, mi, s)

\* ---------------------------------------------------- ScheduleCalculator
\* a calculator that keeps today's date for DAILY
calculate_next_digest_time_SameDay(frequency, now) ==
    IF frequency = "WEEKLY"
    THEN combine(DateOrdinal(now) + 7, Hour(now), Minute(now), Second(now))
    ELSE combine(DateOrdinal(now), Hour(now), Minute(now), Second(now))

\* a calculator that takes the time of day to be midnight
calculate_next_digest_time_Midnight(frequency, now) ==
    IF frequency = "WEEKLY"
    THEN combine(DateOrdinal(now) + 7, 0, 0, 0)
    ELSE combine(DateOrdinal(now) + 1, 0, 0, 0)

\* a calculator that keeps the day of the month whatever the next month's
\* length (day 31 of a 30-day month runs over into the month after)
calculate_next_digest_time_NoClamp(frequency, now) ==
    IF frequency = "MONTHLY"
    THEN LET next_month == IF Month(now) + 1 > 12 THEN 1 ELSE Month(now) + 1
             next_year == IF Month(now) + 1 > 12 THEN Year(now) + 1 ELSE Year(now)
         IN  datetime(next_year, next_month, Day(now),
                      Hour(now), Minute(now), Second(now))
    ELSE combine(DateOrdinal(now) + 1, Hour(now), Minute(now), Second(now))

\* a calculator that treats a frequency it does not know as WEEKLY
calculate_next_digest_time_UnknownWeekly(frequency, now) ==
    IF frequency = "DAILY"
    THEN combine(DateOrdinal(now) + 1, Hour(now), Minute(now), Second(now))
    ELSE combine(DateOrdinal(now) + 7, Hour(now), Minute(now), Second(now))

\* calculate_next_digest_time(user), with the value datetime.utcnow()
\* returns inside the call passed as now
calculate_next_digest_time(frequency, now) ==
    LET digest_hour == Hour(now)
        digest_minute == Minute(now)
        digest_second == Second(now)
    IN  IF frequency = "DAILY"
        THEN combine(DateOrdinal(now) + 1, digest_hour, digest_minute, digest_second)
        ELSE IF frequency = "WEEKLY"
        THEN combine(DateOrdinal(now) + 7, digest_hour, digest_minute, digest_second)
        ELSE IF frequency = "MONTHLY"
        THEN LET next_month == IF Month(now) + 1 > 12 THEN 1 ELSE Month(now) + 1
                 next_year == IF Month(now) + 1 > 12 THEN Year(now) + 1 ELSE Year(now)
                 last_day == monthrange(next_year, next_month)
                 next_day == IF Day(now) < last_day THEN Day(now) ELSE last_day
             IN  datetime(next_year, next_month, next_day,
                          digest_hour, digest_minute, digest_second)
        ELSE combine(DateOrdinal(now) + 1, digest_hour, digest_minute, digest_second)

\* ------------------------------------------------------- model bounds
NumUsers == 2
NumPollers == 2
MaxQueue == 1
MaxSubTicks == 1
MaxDayJumps == 1
MaxApiCalls == 1
MaxApiSeq == 2
DigestLimit == 5
DefaultMaxRetries == 3
RateLimitSleep == 3
BackoffBase == 5
RequestTimeout == 60
MaxRetriesBound == 4
NumCategories == 2
MaxStores == 2
MaxLimit == 2

Users == 1 .. NumUsers
Pollers == 1 .. NumPollers

\* the bodies of the POST /register requests the model sends
RegisterRequests ==
    { [name |-> "NULL", frequency |-> "WEEKLY", categories |-> {"cs.LG"}] }

\* the content records ingestion can store: (arxiv_id, category)
PaperUniverse == {[arxiv_id |-> 1, category |-> "cs.AI", published_at |-> 1]}

\* the instant the model's clock starts at: the last tick before
\* 09:15:00 on 30 January of the year after BaseYear
StartInstant == datetime(BaseYear + 1, 1, 30, 9, 15, 0) - 1

VARIABLES
    clock,          \* datetime.utcnow()
    users,          \* table user_account: id -> row (id = 0: no such row)
    papers,         \* table paper
    pc,             \* check_digest_schedule run of each worker: its position
    now,            \* ... its local now
    users_due,      \* ... its query result
    todo,           \* ... the part of users_due the loop has not reached
    session,        \* ... the rows its session holds, with pending changes
    seen,           \* ... the table as its query saw it
    enqueued,       \* ... the send_digest_email_task.delay calls it made
    queue,          \* pending send_digest_email_task messages per user_id
    lastJob,        \* the send_digest_email_task that finished last: its outcome
    apiCalls,       \* number of API requests served
    apiLimit,       \* number of API requests the clients send
    calcFrequency, calcNow, calcResult,
    ipc,            \* ingest_papers_for_categories: its position
    cat,            \* ... the index in ARXIV_CATEGORIES of its category
    attempt,        \* fetch_papers: its loop variable
    max_retries,    \* ... its parameter
    calls,          \* ... what each category's call did so far
    sinceRequest,   \* time that passed since the latest request to the feed
    gap,            \* time between the latest two requests to the feed
    txAborts,       \* the database aborts a transaction at a failed statement
    lastStore,      \* the store_papers call that ended last
    everStored,     \* the arxiv_ids store_papers has committed a row for
    lastPass        \* the process_unsummarized_papers call that ended last

pollVars == <<pc, now, users_due, todo, session, seen, enqueued>>
jobVars == <<queue, lastJob>>
calcVars == <<calcFrequency, calcNow, calcResult>>
apiVars == <<apiCalls, apiLimit>>
fetchVars == <<ipc, cat, attempt, max_retries, calls, sinceRequest, gap>>
storeVars == <<txAborts, lastStore, everStored, lastPass>>
ingestVars == <<fetchVars, storeVars>>

vars == <<clock, users, papers, pc, now, users_due, todo, session, seen,
          enqueued, queue, lastJob, apiCalls, apiLimit,
          calcFrequency, calcNow, calcResult,
          ipc, cat, attempt, max_retries, calls, sinceRequest, gap,
          txAborts, lastStore, everStored, lastPass>>

\* ----------------------------------------------------- ingestion at rest
\* what a fetch_papers call has done before its first attempt
NoCall == [log |-> <<>>, waits |-> <<>>, end |-> "none", result |-> <<>>]

NoStore == [candidates |-> <<>>, fallback |-> FALSE, n |-> 0,
            repeated |-> FALSE]

\* no process_unsummarized_papers call has ended
NoPass == [limit |-> 0, selected |-> {}, calls |-> 0, outcome |-> "none",
           raised |-> FALSE]

\* no ingest_papers_for_categories run has started
IngestIdle ==
    /\ ipc = "idle"
    /\ cat = 0
    /\ attempt = 0
    /\ max_retries = 0
    /\ calls = <<>>
    /\ sinceRequest = NoTime
    /\ gap = NoTime
    /\ txAborts = TRUE
    /\ lastStore = NoStore
    /\ everStored = {}
    /\ lastPass = NoPass

\* ---------------------------------------------------------------- rows
NoRow == [id |-> 0, email |-> 0, name |-> "NULL", frequency |-> "NULL",
          next_digest_at |-> NoTime, is_active |-> FALSE, categories |-> {}]

NoJob == [mail |-> "none", result |-> FALSE, papers |-> <<>>]

\* a query that forgets the time filter
IsDue_NoTimeFilter(row, t) ==
    /\ row.id # 0
    /\ row.is_active

\* a query that compares next_digest_at for equality with now
IsDue_EqualOnly(row, t) ==
    /\ row.id # 0
    /\ row.next_digest_at = t
    /\ row.is_active

\* a query that forgets the is_active filter
IsDue_NoActiveFilter(row, t) ==
    /\ row.id # 0
    /\ row.next_digest_at # NoTime
    /\ row.next_digest_at <= t

\* a query for which a NULL next_digest_at has elapsed
IsDue_NullElapsed(row, t) ==
    /\ row.id # 0
    /\ row.next_digest_at <= t
    /\ row.is_active

\* UserAccount.next_digest_at <= now, UserAccount.is_active == True
\* (a NULL next_digest_at compares as unknown and is filtered out)
IsDue(row, t) ==
    /\ row.id # 0
    /\ row.next_digest_at # NoTime
    /\ row.next_digest_at <= t
    /\ row.is_active

DueQuery(table, t) == {u \in Users : IsDue(table[u], t)}

\* -------------------------------------------------------------- clock
Elapsed == clock - StartInstant

\* time passes: by one tick at any moment, and by a day between runs (a
\* run of check_digest_schedule lasts far less than a day)
Tick ==
    /\ \/ /\ (Elapsed % TicksPerDay) < MaxSubTicks
          /\ clock' = clock + 1
       \/ /\ (Elapsed \div TicksPerDay) < MaxDayJumps
          /\ \A p \in Pollers : pc[p] # "loop"
          /\ clock' = clock + TicksPerDay
    /\ UNCHANGED <<users, papers, pollVars, jobVars, apiVars, calcVars, ingestVars>>

\* ------------------------------------------------ check_digest_schedule
Finished(p) == pc[p] # "loop"

\* now = datetime.utcnow(); db = SessionLocal()
\* users_due = db.query(UserAccount).filter(...).all()
PollQuery(p) ==
    /\ Finished(p)
    /\ now' = [now EXCEPT ![p] = clock]
    /\ LET due == DueQuery(users, clock)
       IN  /\ users_due' = [users_due EXCEPT ![p] = due]
           /\ todo' = [todo EXCEPT ![p] = due]
           /\ session' = [session EXCEPT ![p] =
                            [u \in Users |-> IF u \in due THEN users[u] ELSE NoRow]]
    /\ seen' = [seen EXCEPT ![p] = users]
    /\ pc' = [pc EXCEPT ![p] = "loop"]
    /\ UNCHANGED <<clock, users, papers, enqueued, jobVars, apiVars, calcVars, ingestVars>>

\* finally: db.close(); the run's frame is gone
PollClose(p) ==
    /\ now' = [now EXCEPT ![p] = NoTime]
    /\ users_due' = [users_due EXCEPT ![p] = {}]
    /\ todo' = [todo EXCEPT ![p] = {}]
    /\ session' = [session EXCEPT ![p] = [u \in Users |-> NoRow]]
    /\ seen' = [seen EXCEPT ![p] = [u \in Users |-> NoRow]]
    /\ enqueued' = [enqueued EXCEPT ![p] = [u \in Users |-> 0]]

\* a commit that writes every column of a changed row as the run loaded it
Flush_WholeRow(table, sess, changed) ==
    [u \in Users |-> IF u \in changed THEN sess[u] ELSE table[u]]

\* the rows db.commit() writes: the changed column of every changed row
Flush(table, sess, changed) ==
    [u \in Users |->
        IF u \in changed
        THEN [table[u] EXCEPT !.next_digest_at = sess[u].next_digest_at]
        ELSE table[u]]

\* a failure that takes the jobs of the run off the queue again
PollAbort_RevokesJobs(p, place) ==
    /\ pc' = [pc EXCEPT ![p] = place]
    /\ PollClose(p)
    /\ queue' = [u \in Users |->
                   IF queue[u] >= enqueued[p][u] THEN queue[u] - enqueued[p][u]
                   ELSE 0]
    /\ UNCHANGED <<clock, users, papers, lastJob, apiVars, calcVars, ingestVars>>

\* a failure that leaves the changes flushed so far in the table
PollAbort_NoRollback(p, place) ==
    /\ pc' = [pc EXCEPT ![p] = place]
    /\ PollClose(p)
    /\ users' = Flush(users, session[p], users_due[p] \ todo[p])
    /\ UNCHANGED <<clock, papers, jobVars, apiVars, calcVars, ingestVars>>

\* the positions of a run that ended in except: db.rollback(); raise, the
\* exception leaving check_digest_schedule
Raised == {"query_failed", "enqueue_failed", "commit_failed"}

\* an exception in the try block at the given place: db.rollback(); raise
PollAbort(p, place) ==
    /\ pc' = [pc EXCEPT ![p] = place]
    /\ PollClose(p)
    /\ UNCHANGED <<clock, users, papers, jobVars, apiVars, calcVars, ingestVars>>

\* the query raises
PollQueryFail(p) ==
    /\ Finished(p)
    /\ PollAbort(p, "query_failed")

\* a loop body that advances the schedule without enqueueing the job
PollDispatch_AdvanceOnly(p, u) ==
    /\ pc[p] = "loop"
    /\ u \in todo[p]
    /\ session' = [session EXCEPT ![p][u].next_digest_at =
                     calculate_next_digest_time(session[p][u].frequency, clock)]
    /\ todo' = [todo EXCEPT ![p] = @ \ {u}]
    /\ UNCHANGED <<clock, users, papers, pc, now, users_due, seen, enqueued,
                   jobVars, apiVars, calcVars, ingestVars>>

\* a loop body that advances the schedule from its old value
PollDispatch_FromOldValue(p, u) ==
    /\ pc[p] = "loop"
    /\ u \in todo[p]
    /\ queue[u] < MaxQueue
    /\ queue' = [queue EXCEPT ![u] = @ + 1]
    /\ enqueued' = [enqueued EXCEPT ![p][u] = @ + 1]
    /\ session' = [session EXCEPT ![p][u].next_digest_at =
                     calculate_next_digest_time(session[p][u].frequency,
                                                session[p][u].next_digest_at)]
    /\ todo' = [todo EXCEPT ![p] = @ \ {u}]
    /\ UNCHANGED <<clock, users, papers, pc, now, users_due, seen, lastJob,
                   apiVars, calcVars, ingestVars>>

\* one pass of the loop body for user u:
\*   send_digest_email_task.delay(user.id)
\*   user.next_digest_at = calculate_next_digest_time(user)
PollDispatch(p, u) ==
    /\ pc[p] = "loop"
    /\ u \in todo[p]
    /\ queue[u] < MaxQueue
    /\ queue' = [queue EXCEPT ![u] = @ + 1]
    /\ enqueued' = [enqueued EXCEPT ![p][u] = @ + 1]
    /\ session' = [session EXCEPT ![p][u].next_digest_at =
                     calculate_next_digest_time(session[p][u].frequency, clock)]
    /\ todo' = [todo EXCEPT ![p] = @ \ {u}]
    /\ UNCHANGED <<clock, users, papers, pc, now, users_due, seen, lastJob,
                   apiVars, calcVars, ingestVars>>

\* delay raises (the broker is unreachable)
PollDispatchFail(p, u) ==
    /\ pc[p] = "loop"
    /\ u \in todo[p]
    /\ PollAbort(p, "enqueue_failed")

\* db.commit() after the loop
PollCommit(p) ==
    /\ pc[p] = "loop"
    /\ todo[p] = {}
    /\ users' = Flush(users, session[p], users_due[p])
    /\ pc' = [pc EXCEPT ![p] = "done"]
    /\ PollClose(p)
    /\ UNCHANGED <<clock, papers, jobVars, apiVars, calcVars, ingestVars>>

\* db.commit() raises
PollCommitFail(p) ==
    /\ pc[p] = "loop"
    /\ todo[p] = {}
    /\ PollAbort(p, "commit_failed")

\* ----------------------------------------------- send_digest_email_task
\* Paper.category.in_(user.categories): a NULL category matches nothing
MatchingPapers(row) == {q \in papers : q.category \in row.categories}

\* ORDER BY published_at DESC as PostgreSQL sorts it: a row whose
\* published_at is NULL comes before every row that has one
Before(q, r) ==
    \/ q.published_at = NoTime
    \/ (r.published_at # NoTime /\ q.published_at >= r.published_at)

\* the results .order_by(...).limit(k).all() can return for the rows in S:
\* rows that compare equal come in any order
RECURSIVE OrderLimit(_, _)
OrderLimit(S, k) ==
    IF k = 0 \/ S = {} THEN {<<>>}
    ELSE UNION { { <<q>> \o rest : rest \in OrderLimit(S \ {q}, k - 1) } :
                   q \in {q \in S : \A r \in S : Before(q, r)} }

\* a query that filters on no category
DigestQuery_NoCategoryFilter(row) == OrderLimit(papers, DigestLimit)

\* db.query(Paper).filter(...).order_by(...).limit(5).all()
DigestQuery(row) == OrderLimit(MatchingPapers(row), DigestLimit)

\* a task that does not look at is_active
JobOutcome_NoActiveCheck(row, content, mailer) ==
    IF row.id = 0 \/ content = <<>>
    THEN [mail |-> "skipped", result |-> FALSE, papers |-> <<>>]
    ELSE [mail |-> IF mailer THEN "sent" ELSE "failed", result |-> TRUE,
          papers |-> content]

\* a task that mails an empty digest
JobOutcome_MailsEmpty(row, content, mailer) ==
    IF row.id = 0 \/ ~row.is_active
    THEN [mail |-> "skipped", result |-> FALSE, papers |-> <<>>]
    ELSE [mail |-> IF mailer THEN "sent" ELSE "failed", result |-> TRUE,
          papers |-> content]

\* the outcome of the task for the row it loads and the papers its query
\* returns: what the mailer did, the value the task returns and the papers
\* it passed to send_digest_email; mailer is what send_digest_email's
\* sg.send does: TRUE sends, FALSE raises (send_digest_email catches it)
JobOutcome(row, content, mailer) ==
    IF row.id = 0 \/ ~row.is_active
    THEN [mail |-> "skipped", result |-> FALSE, papers |-> <<>>]
    ELSE IF content = <<>>
    THEN [mail |-> "skipped", result |-> FALSE, papers |-> <<>>]
    ELSE IF mailer
    THEN [mail |-> "sent", result |-> TRUE, papers |-> content]
    ELSE [mail |-> "failed", result |-> TRUE, papers |-> content]

\* a task whose mail failure discards the jobs queued for other users
send_digest_email_task_FailureDropsQueue(u, mailer) ==
    /\ queue[u] > 0
    /\ queue' = IF mailer THEN [queue EXCEPT ![u] = @ - 1] ELSE [v \in Users |-> 0]
    /\ \E content \in DigestQuery(users[u]) :
          lastJob' = JobOutcome(users[u], content, mailer)
    /\ UNCHANGED <<clock, users, papers, pollVars, apiVars, calcVars, ingestVars>>

send_digest_email_task(u, mailer) ==
    /\ queue[u] > 0
    /\ queue' = [queue EXCEPT ![u] = @ - 1]
    /\ \E content \in DigestQuery(users[u]) :
          lastJob' = JobOutcome(users[u], content, mailer)
    /\ UNCHANGED <<clock, users, papers, pollVars, apiVars, calcVars, ingestVars>>

\* ------------------------------------------------------------------ API
\* the row POST /register leaves for email u, before next_digest_at is set
RegisteredRow(existing, u, user_data) ==
    IF existing.id # 0
    THEN [existing EXCEPT
            !.name = IF user_data.name # "NULL" THEN user_data.name ELSE @,
            !.categories = user_data.categories,
            !.frequency = user_data.frequency,
            !.is_active = TRUE]
    ELSE [id |-> u, email |-> u, name |-> user_data.name,
          frequency |-> user_data.frequency, next_digest_at |-> NoTime,
          is_active |-> TRUE, categories |-> user_data.categories]

\* a register that keeps the schedule of a row whose cadence it leaves
register_user_KeepsSchedule(u, user_data) ==
    /\ apiCalls < apiLimit
    /\ apiCalls' = apiCalls + 1
    /\ users' = [users EXCEPT ![u] =
                   [RegisteredRow(users[u], u, user_data) EXCEPT
                      !.next_digest_at =
                         IF users[u].id # 0
                            /\ users[u].frequency = user_data.frequency
                         THEN users[u].next_digest_at
                         ELSE calculate_next_digest_time(user_data.frequency,
                                                         clock)]]
    /\ UNCHANGED <<clock, papers, pollVars, jobVars, apiLimit, calcVars, ingestVars>>

\* POST /register
register_user(u, user_data) ==
    /\ apiCalls < apiLimit
    /\ apiCalls' = apiCalls + 1
    /\ users' = [users EXCEPT ![u] =
                   [RegisteredRow(users[u], u, user_data) EXCEPT
                      !.next_digest_at =
                         calculate_next_digest_time(user_data.frequency, clock)]]
    /\ UNCHANGED <<clock, papers, pollVars, jobVars, apiLimit, calcVars, ingestVars>>

\* an update that stores a new frequency and keeps the old next_digest_at
update_profile_KeepsSchedule(u, user_data) ==
    /\ apiCalls < apiLimit
    /\ users[u].id # 0
    /\ apiCalls' = apiCalls + 1
    /\ users' = [users EXCEPT ![u] =
                   [@ EXCEPT
                      !.frequency = IF user_data.frequency # "NULL"
                                    THEN user_data.frequency ELSE @]]
    /\ UNCHANGED <<clock, papers, pollVars, jobVars, apiLimit, calcVars, ingestVars>>

\* PUT /profile by the user with email u; a field that is not sent is
\* "NULL" (name, frequency) or the empty set of lists (categories)
update_profile(u, user_data) ==
    /\ apiCalls < apiLimit
    /\ users[u].id # 0
    /\ apiCalls' = apiCalls + 1
    /\ LET frequency_changed ==
               /\ user_data.frequency # "NULL"
               /\ users[u].frequency # user_data.frequency
           named == [users[u] EXCEPT
                       !.name = IF user_data.name # "NULL"
                                THEN user_data.name ELSE @]
           listed == IF user_data.categories # {}
                     THEN [named EXCEPT
                             !.categories = CHOOSE c \in user_data.categories : TRUE]
                     ELSE named
       IN  users' = [users EXCEPT ![u] =
                       IF frequency_changed
                       THEN [listed EXCEPT
                               !.frequency = user_data.frequency,
                               !.next_digest_at =
                                  calculate_next_digest_time(user_data.frequency, clock)]
                       ELSE listed]
    /\ UNCHANGED <<clock, papers, pollVars, jobVars, apiLimit, calcVars, ingestVars>>

\* GET /unsubscribe with a valid token of user u
unsubscribe(u) ==
    /\ apiCalls < apiLimit
    /\ users[u].id # 0
    /\ apiCalls' = apiCalls + 1
    /\ users' = [users EXCEPT ![u].is_active = FALSE]
    /\ UNCHANGED <<clock, papers, pollVars, jobVars, apiLimit, calcVars, ingestVars>>

\* ------------------------------------------------------- specification
\* the rows the table starts with: every user registered earlier, daily,
\* with a digest due an hour ago or due one tick from now
InitRow(u, due, active) ==
    [id |-> u, email |-> u, name |-> "NULL", frequency |-> "DAILY",
     next_digest_at |-> IF due THEN StartInstant - TicksPerHour ELSE StartInstant + 1,
     is_active |-> active, categories |-> {"cs.AI"}]

InitTables ==
    { [u \in Users |-> IF u = 1 THEN InitRow(u, TRUE, a) ELSE InitRow(u, d, TRUE)] :
        a \in BOOLEAN, d \in BOOLEAN }

Init ==
    /\ clock = StartInstant
    /\ users \in InitTables
    /\ papers = PaperUniverse
    /\ pc = [p \in Pollers |-> "idle"]
    /\ now = [p \in Pollers |-> NoTime]
    /\ users_due = [p \in Pollers |-> {}]
    /\ todo = [p \in Pollers |-> {}]
    /\ session = [p \in Pollers |-> [u \in Users |-> NoRow]]
    /\ seen = [p \in Pollers |-> [u \in Users |-> NoRow]]
    /\ enqueued = [p \in Pollers |-> [u \in Users |-> 0]]
    /\ queue = [u \in Users |-> 0]
    /\ lastJob = NoJob
    /\ apiCalls = 0
    /\ apiLimit = MaxApiCalls
    /\ calcFrequency = "NULL"
    /\ calcNow = NoTime
    /\ calcResult = NoTime
    /\ IngestIdle

Next ==
    \/ Tick
    \/ \E p \in Pollers : PollQuery(p)
    \/ \E p \in Pollers : PollQueryFail(p)
    \/ \E p \in Pollers, u \in Users : PollDispatch(p, u)
    \/ \E p \in Pollers, u \in Users : PollDispatchFail(p, u)
    \/ \E p \in Pollers : PollCommit(p)
    \/ \E p \in Pollers : PollCommitFail(p)
    \/ \E u \in Users, mailer \in BOOLEAN : send_digest_email_task(u, mailer)
    \/ \E u \in Users, r \in RegisterRequests : register_user(u, r)
    \/ \E u \in Users : unsubscribe(u)

Spec == Init /\ [][Next]_vars

\* The dispatcher with one worker running check_digest_schedule, under the
\* schedule of Celery beat and the workers: a run is started again and
\* again, a run in progress reaches its commit, the broker accepts a job
\* again and again, queued jobs are executed, and time passes.
LivePollers == {1}

LiveNext ==
    \/ Tick
    \/ \E p \in LivePollers : PollQuery(p)
    \/ \E p \in LivePollers : PollQueryFail(p)
    \/ \E p \in LivePollers, u \in Users : PollDispatch(p, u)
    \/ \E p \in LivePollers, u \in Users : PollDispatchFail(p, u)
    \/ \E p \in LivePollers : PollCommit(p)
    \/ \E p \in LivePollers : PollCommitFail(p)
    \/ \E u \in Users, mailer \in BOOLEAN : send_digest_email_task(u, mailer)
    \/ \E u \in Users, r \in RegisterRequests : register_user(u, r)
    \/ \E u \in Users : unsubscribe(u)

Fairness ==
    /\ WF_vars(Tick)
    /\ \A p \in LivePollers : WF_vars(PollQuery(p))
    /\ \A p \in LivePollers : WF_vars(PollCommit(p))
    /\ \A p \in LivePollers, u \in Users : SF_vars(PollDispatch(p, u))
    /\ \A u \in Users : WF_vars(\E mailer \in BOOLEAN : send_digest_email_task(u, mailer))

LiveSpec == Init /\ [][LiveNext]_vars /\ Fairness

\* The dispatcher with one worker and a paper table that holds a paper of
\* the recipients' category or only a paper of another category.
DigestPaperStores ==
    { PaperUniverse, {[arxiv_id |-> 2, category |-> "cs.CV", published_at |-> 1]} }

DigestInit ==
    /\ clock = StartInstant
    /\ users \in InitTables
    /\ papers \in DigestPaperStores
    /\ pc = [p \in Pollers |-> "idle"]
    /\ now = [p \in Pollers |-> NoTime]
    /\ users_due = [p \in Pollers |-> {}]
    /\ todo = [p \in Pollers |-> {}]
    /\ session = [p \in Pollers |-> [u \in Users |-> NoRow]]
    /\ seen = [p \in Pollers |-> [u \in Users |-> NoRow]]
    /\ enqueued = [p \in Pollers |-> [u \in Users |-> 0]]
    /\ queue = [u \in Users |-> 0]
    /\ lastJob = NoJob
    /\ apiCalls = 0
    /\ apiLimit = MaxApiCalls
    /\ calcFrequency = "NULL"
    /\ calcNow = NoTime
    /\ calcResult = NoTime
    /\ IngestIdle

DigestSpec == DigestInit /\ [][LiveNext]_vars

\* The dispatcher with one worker and recipients whose schedule is far
\* behind or was never set.
OverdueDays == [DAILY |-> 3, WEEKLY |-> 15, MONTHLY |-> 70]

\* a recipient whose next_digest_at lies more than one period back
OverdueRow(u, frequency) ==
    [id |-> u, email |-> u, name |-> "NULL", frequency |-> frequency,
     next_digest_at |-> StartInstant - OverdueDays[frequency] * TicksPerDay,
     is_active |-> TRUE, categories |-> {"cs.AI"}]

\* a row inserted without register: next_digest_at has no default
UnscheduledRow(u) ==
    [id |-> u, email |-> u, name |-> "NULL", frequency |-> "DAILY",
     next_digest_at |-> NoTime, is_active |-> TRUE, categories |-> {"cs.AI"}]

SchedTables ==
    { [u \in Users |-> IF u = 1 THEN OverdueRow(u, f) ELSE r] :
        f \in Frequencies,
        r \in {UnscheduledRow(2), InitRow(2, TRUE, TRUE), NoRow} }

SchedInit ==
    /\ clock = StartInstant
    /\ users \in SchedTables
    /\ papers = PaperUniverse
    /\ pc = [p \in Pollers |-> "idle"]
    /\ now = [p \in Pollers |-> NoTime]
    /\ users_due = [p \in Pollers |-> {}]
    /\ todo = [p \in Pollers |-> {}]
    /\ session = [p \in Pollers |-> [u \in Users |-> NoRow]]
    /\ seen = [p \in Pollers |-> [u \in Users |-> NoRow]]
    /\ enqueued = [p \in Pollers |-> [u \in Users |-> 0]]
    /\ queue = [u \in Users |-> 0]
    /\ lastJob = NoJob
    /\ apiCalls = 0
    /\ apiLimit = MaxApiSeq
    /\ calcFrequency = "NULL"
    /\ calcNow = NoTime
    /\ calcResult = NoTime
    /\ IngestIdle

SchedSpec == SchedInit /\ [][LiveNext]_vars

\* --------------------------------------------------- the API on its own
\* the bodies of POST /register: UserCreate (a frequency that is left out
\* is DAILY; name "NULL" is a name left out)
ApiRegisterRequests ==
    [name : {"NULL", "Ada"}, frequency : Frequencies,
     categories : { {}, {"cs.LG"} }]

\* the bodies of PUT /profile: UserUpdate; categories is the set of lists
\* sent, empty if the field is left out
UpdateRequests ==
    [name : {"NULL", "Ada"}, frequency : {"NULL"} \cup Frequencies,
     categories : { {}, {{}}, {{"cs.LG"}} }]

\* the rows the table can hold for user u before the calls: none, or one
\* registered earlier with category cs.AI
ApiRows(u) ==
    {NoRow} \cup
    { [id |-> u, email |-> u, name |-> "NULL", frequency |-> f,
       next_digest_at |-> StartInstant + 1, is_active |-> a,
       categories |-> {"cs.AI"}] : f \in Frequencies, a \in BOOLEAN }

ApiInit ==
    /\ clock = StartInstant
    /\ users \in {t \in [Users -> UNION {ApiRows(u) : u \in Users}] :
                     \A u \in Users : t[u] \in ApiRows(u)}
    /\ papers = PaperUniverse
    /\ pc = [p \in Pollers |-> "idle"]
    /\ now = [p \in Pollers |-> NoTime]
    /\ users_due = [p \in Pollers |-> {}]
    /\ todo = [p \in Pollers |-> {}]
    /\ session = [p \in Pollers |-> [u \in Users |-> NoRow]]
    /\ seen = [p \in Pollers |-> [u \in Users |-> NoRow]]
    /\ enqueued = [p \in Pollers |-> [u \in Users |-> 0]]
    /\ queue = [u \in Users |-> 0]
    /\ lastJob = NoJob
    /\ apiCalls = 0
    /\ apiLimit = MaxApiSeq
    /\ calcFrequency = "NULL"
    /\ calcNow = NoTime
    /\ calcResult = NoTime
    /\ IngestIdle

ApiNext ==
    \/ Tick
    \/ \E u \in Users, r \in ApiRegisterRequests : register_user(u, r)
    \/ \E u \in Users, d \in UpdateRequests : update_profile(u, d)
    \/ \E u \in Users : unsubscribe(u)

ApiSpec == ApiInit /\ [][ApiNext]_vars

\* ---------------------------------------- the calculator on its own
\* times of day the calculator is exercised at: (hour, minute, second)
TimesOfDay == {<<0, 0, 0>>, <<9, 15, 0>>, <<23, 59, 59>>}

CalcInstants ==
    { combine(d, hms[1], hms[2], hms[3]) + us :
        d \in 0 .. (DaysBeforeYear(BaseYear + NumYears) - 1),
        hms \in TimesOfDay, us \in 0 .. (SubSec - 1) }

CalcInit ==
    /\ calcFrequency \in FrequencyValues
    /\ calcNow \in CalcInstants
    /\ calcResult = NoTime
    /\ clock = StartInstant
    /\ users = [u \in Users |-> NoRow]
    /\ papers = PaperUniverse
    /\ pc = [p \in Pollers |-> "idle"]
    /\ now = [p \in Pollers |-> NoTime]
    /\ users_due = [p \in Pollers |-> {}]
    /\ todo = [p \in Pollers |-> {}]
    /\ session = [p \in Pollers |-> [u \in Users |-> NoRow]]
    /\ seen = [p \in Pollers |-> [u \in Users |-> NoRow]]
    /\ enqueued = [p \in Pollers |-> [u \in Users |-> 0]]
    /\ queue = [u \in Users |-> 0]
    /\ lastJob = NoJob
    /\ apiCalls = 0
    /\ apiLimit = MaxApiCalls
    /\ IngestIdle

CalcApply ==
    /\ calcResult = NoTime
    /\ calcResult' = calculate_next_digest_time(calcFrequency, calcNow)
    /\ UNCHANGED <<calcFrequency, calcNow, clock, users, papers, pollVars,
                   jobVars, apiVars, ingestVars>>

CalcNext == CalcApply

CalcSpec == CalcInit /\ [][CalcNext]_vars

\* --------------------------------------------------- parse_arxiv_response
\* An entry of the feed: id is the path of its <id> URL, split at "/"
\* (<<>>: no <id> text); "NULL" and NoTime stand for an element that is
\* missing.  A response is the text of the feed: not XML at all, or a list
\* of entries.
FeedEntry(id, title, authors, summary, category, published) ==
    [id |-> id, title |-> title, authors |-> authors, summary |-> summary,
     category |-> category, published |-> published]

Entry1 == FeedEntry(<<"arxiv.org", "abs", "a1">>, "t1", "au1", "s1", "cs.AI", 1)
Entry2 == FeedEntry(<<"arxiv.org", "abs", "a2">>, "t2", "au2", "s2", "cs.CL", 2)
Entry1Again == FeedEntry(<<"arxiv.org", "abs", "a1">>, "t1 revised", "au1", "s1", "cs.LG", 3)
EntryMinimal == FeedEntry(<<"arxiv.org", "abs", "a3">>, "t3", "NULL", "NULL", "NULL", NoTime)
EntryNoId == FeedEntry(<<>>, "t4", "au4", "s4", "cs.AI", 4)

Responses ==
    { [xml |-> FALSE, entries |-> <<>>],
      [xml |-> TRUE, entries |-> <<>>],
      [xml |-> TRUE, entries |-> <<Entry1>>],
      [xml |-> TRUE, entries |-> <<Entry1, Entry2>>],
      [xml |-> TRUE, entries |-> <<EntryMinimal>>],
      [xml |-> TRUE, entries |-> <<Entry1, Entry1Again>>],
      [xml |-> TRUE, entries |-> <<Entry1, EntryNoId, Entry2>>] }

\* the paper dictionary built from one entry that has an id
ParseEntry(entry) ==
    [arxiv_id |-> entry.id[Len(entry.id)],
     title |-> IF entry.title = "NULL" THEN "" ELSE entry.title,
     authors |-> IF entry.authors = "NULL" THEN "" ELSE entry.authors,
     summary |-> IF entry.summary = "NULL" THEN "" ELSE entry.summary,
     category |-> entry.category,
     published_at |-> entry.published]

\* the loop over the entries: entry.find("atom:id").text raises at an
\* entry that has no id, and the papers built so far are lost
RECURSIVE ParseEntries(_)
ParseEntries(entries) ==
    IF entries = <<>> THEN [raised |-> FALSE, papers |-> <<>>]
    ELSE IF Head(entries).id = <<>> THEN [raised |-> TRUE, papers |-> <<>>]
    ELSE LET rest == ParseEntries(Tail(entries))
         IN  [raised |-> rest.raised,
              papers |-> IF rest.raised THEN <<>>
                         ELSE <<ParseEntry(Head(entries))>> \o rest.papers]

\* parse_arxiv_response(xml_content): ET.fromstring raises on a text that
\* is not XML
parse_arxiv_response(response) ==
    IF ~response.xml THEN [raised |-> TRUE, papers |-> <<>>]
    ELSE ParseEntries(response.entries)

\* ------------------------------------------------------------ fetch_papers
RECURSIVE Pow2(_)
Pow2(k) == IF k = 0 THEN 1 ELSE 2 * Pow2(k - 1)

\* a backoff that grows by BackoffBase seconds per attempt
wait_time_Linear(k) == BackoffBase * (k + 1)

\* wait_time = 5 * (2 ** attempt), in seconds
wait_time(k) == BackoffBase * Pow2(k)

\* the exceptions of the request: httpx.TimeoutException, httpx.HTTPError
\* (raise_for_status included) and any other one
Failures == {"timeout", "http_error", "other"}

NoResponse == [xml |-> FALSE, entries |-> <<>>]

\* what one attempt's request can end in
Outcomes ==
    [kind : Failures, response : {NoResponse}]
        \cup [kind : {"ok"}, response : Responses]

\* the time an exchange with the feed takes when it is not cut off by
\* the client's timeout
Latencies == {0, SubSec}

\* handlers that sleep after the last attempt too
Handler_SleepsAfterLast(entry, elapsed) ==
    /\ calls' = [calls EXCEPT
            ![cat].log = Append(@, entry),
            ![cat].waits = Append(@, wait_time(attempt)),
            ![cat].end = IF attempt < max_retries - 1 THEN @ ELSE "exhausted"]
    /\ sinceRequest' = elapsed + wait_time(attempt) * SubSec
    /\ attempt' = IF attempt < max_retries - 1 THEN attempt + 1 ELSE attempt
    /\ ipc' = IF attempt < max_retries - 1 THEN ipc ELSE "returned"

\* handlers that forget which attempt they are in
Handler_SameAttempt(entry, elapsed) ==
    /\ calls' = [calls EXCEPT ![cat].log = Append(@, entry),
                              ![cat].waits = Append(@, wait_time(attempt))]
    /\ sinceRequest' = elapsed + wait_time(attempt) * SubSec
    /\ attempt' = attempt
    /\ ipc' = ipc

\* handlers that let the exception of the last attempt leave fetch_papers
\* and ingest_papers_for_categories
Handler_RaisesAfterLast(entry, elapsed) ==
    IF attempt < max_retries - 1
    THEN /\ calls' = [calls EXCEPT ![cat].log = Append(@, entry),
                                   ![cat].waits = Append(@, wait_time(attempt))]
         /\ sinceRequest' = elapsed + wait_time(attempt) * SubSec
         /\ attempt' = attempt + 1
         /\ ipc' = ipc
    ELSE /\ calls' = [calls EXCEPT ![cat].log = Append(@, entry),
                                   ![cat].end = "raised"]
         /\ sinceRequest' = elapsed
         /\ attempt' = attempt
         /\ ipc' = "done"

\* The three except branches of the loop, which are the same code: the
\* attempt that ended in entry is over, elapsed after its request.  Before
\* the last attempt they sleep wait_time and the loop goes on; at the last
\* attempt they return [].
Handler(entry, elapsed) ==
    IF attempt < max_retries - 1
    THEN /\ calls' = [calls EXCEPT ![cat].log = Append(@, entry),
                                   ![cat].waits = Append(@, wait_time(attempt))]
         /\ sinceRequest' = elapsed + wait_time(attempt) * SubSec
         /\ attempt' = attempt + 1
         /\ ipc' = ipc
    ELSE /\ calls' = [calls EXCEPT ![cat].log = Append(@, entry),
                                   ![cat].end = "exhausted",
                                   ![cat].result = <<>>]
         /\ sinceRequest' = elapsed
         /\ attempt' = attempt
         /\ ipc' = "returned"

\* One iteration of the loop of fetch_papers: the request, and then either
\* time.sleep(3) and the parse of the response, which is inside the try,
\* or the except branch of the exception.
FetchAttempt(outcome, latency) ==
    /\ ipc = "fetch"
    /\ attempt < max_retries
    /\ gap' = sinceRequest
    /\ IF outcome.kind = "ok"
       THEN LET parsed == parse_arxiv_response(outcome.response)
                elapsed == latency + RateLimitSleep * SubSec
            IN  IF parsed.raised
                THEN Handler([kind |-> "unparsable",
                              response |-> outcome.response], elapsed)
                ELSE /\ calls' = [calls EXCEPT
                            ![cat].log = Append(@, outcome),
                            ![cat].end = "success",
                            ![cat].result = parsed.papers]
                     /\ sinceRequest' = elapsed
                     /\ attempt' = attempt
                     /\ ipc' = "returned"
       ELSE IF outcome.kind = "timeout"
       THEN Handler(outcome, RequestTimeout * SubSec)
       ELSE Handler(outcome, latency)
    /\ UNCHANGED <<cat, max_retries, storeVars, clock, users, papers,
                   pollVars, jobVars, apiVars, calcVars>>

\* the return [] after the loop, reached when the loop has no iteration
FetchNoAttempt ==
    /\ ipc = "fetch"
    /\ attempt >= max_retries
    /\ calls' = [calls EXCEPT ![cat].end = "exhausted", ![cat].result = <<>>]
    /\ ipc' = "returned"
    /\ UNCHANGED <<cat, attempt, max_retries, sinceRequest, gap, storeVars,
                   clock, users, papers, pollVars, jobVars, apiVars, calcVars>>

\* ------------------------------------------------------------ store_papers
\* a row of table paper; abstract and fetched_at are left out
PaperRow(id, candidate) ==
    [id |-> id, arxiv_id |-> candidate.arxiv_id, title |-> candidate.title,
     authors |-> candidate.authors, summary |-> candidate.summary,
     category |-> candidate.category,
     published_at |-> candidate.published_at, embedding |-> "NULL"]

\* the autoincrement of the primary key
NextId(table) ==
    IF table = {} THEN 1
    ELSE (CHOOSE i \in {row.id : row \in table} :
              \A row \in table : row.id <= i) + 1

\* the two existence queries: a row with this arxiv_id
Exists(table, arxiv_id) == \E row \in table : row.arxiv_id = arxiv_id

\* a table whose arxiv_id is not unique
Violates_NoUnique(table, candidate) == candidate.arxiv_id = "NULL"

\* the constraints of the table an INSERT of the candidate would violate:
\* arxiv_id is NOT NULL and UNIQUE
Violates(table, candidate) ==
    \/ candidate.arxiv_id = "NULL"
    \/ Exists(table, candidate.arxiv_id)

\* the first loop: the candidates db.add is called for.  The session does
\* not autoflush, so the query sees the committed rows only.
Pending(table, candidates) ==
    SelectSeq(candidates, LAMBDA c : ~Exists(table, c.arxiv_id))

\* the flush of db.commit(): one INSERT per pending object
RECURSIVE FlushFails(_, _)
FlushFails(table, pending) ==
    /\ pending # <<>>
    /\ \/ Violates(table, Head(pending))
       \/ FlushFails(table \cup {PaperRow(NextId(table), Head(pending))},
                     Tail(pending))

RECURSIVE Inserted(_, _)
Inserted(table, pending) ==
    IF pending = <<>> THEN table
    ELSE Inserted(table \cup {PaperRow(NextId(table), Head(pending))},
                  Tail(pending))

\* a fallback loop that inserts without its existence query
RECURSIVE Fallback_NoExistenceQuery(_, _, _, _)
Fallback_NoExistenceQuery(view, candidates, aborted, aborts) ==
    IF candidates = <<>> THEN [view |-> view, aborted |-> aborted]
    ELSE IF aborted
    THEN Fallback_NoExistenceQuery(view, Tail(candidates), TRUE, aborts)
    ELSE IF Violates(view, Head(candidates))
    THEN Fallback_NoExistenceQuery(view, Tail(candidates), aborts, aborts)
    ELSE Fallback_NoExistenceQuery(
             view \cup {PaperRow(NextId(view), Head(candidates))},
             Tail(candidates), FALSE, aborts)

\* The fallback loop in its transaction: view is what the transaction
\* sees, aborted that a statement of it has failed on a database that
\* aborts the transaction then (aborts); every later statement fails too
\* and its exception is caught like the first one.
RECURSIVE Fallback(_, _, _, _)
Fallback(view, candidates, aborted, aborts) ==
    IF candidates = <<>> THEN [view |-> view, aborted |-> aborted]
    ELSE IF aborted THEN Fallback(view, Tail(candidates), TRUE, aborts)
    ELSE IF Exists(view, Head(candidates).arxiv_id)
    THEN Fallback(view, Tail(candidates), FALSE, aborts)
    ELSE IF Violates(view, Head(candidates))
    THEN Fallback(view, Tail(candidates), aborts, aborts)
    ELSE Fallback(view \cup {PaperRow(NextId(view), Head(candidates))},
                  Tail(candidates), FALSE, aborts)

\* the values a candidate carries, written over the row
Overwritten(row, candidate) ==
    [row EXCEPT !.title = candidate.title, !.authors = candidate.authors,
                !.summary = candidate.summary,
                !.category = candidate.category,
                !.published_at = candidate.published_at]

RECURSIVE Upserted(_, _)
Upserted(table, candidates) ==
    IF candidates = <<>> THEN table
    ELSE Upserted({IF row.arxiv_id = Head(candidates).arxiv_id
                   THEN Overwritten(row, Head(candidates)) ELSE row :
                       row \in table},
                  Tail(candidates))

\* a store that updates the row of a candidate that exists
store_papers_Upsert(table, candidates, aborts) ==
    LET pending == Pending(table, candidates)
    IN  IF ~FlushFails(table, pending)
        THEN [table |-> Inserted(Upserted(table, candidates), pending),
              fallback |-> FALSE]
        ELSE LET f == Fallback(table, candidates, FALSE, aborts)
             IN  [table |-> IF f.aborted THEN table ELSE f.view,
                  fallback |-> TRUE]

\* store_papers(papers, db): the table it leaves, and whether its first
\* commit failed.  A commit in an aborted transaction rolls back.
store_papers(table, candidates, aborts) ==
    LET pending == Pending(table, candidates)
    IN  IF ~FlushFails(table, pending)
        THEN [table |-> Inserted(table, pending), fallback |-> FALSE]
        ELSE LET f == Fallback(table, candidates, FALSE, aborts)
             IN  [table |-> IF f.aborted THEN table ELSE f.view,
                  fallback |-> TRUE]

\* what a store_papers call leaves in the variables
Store(candidates) ==
    LET stored == store_papers(papers, candidates, txAborts)
    IN  /\ papers' = stored.table
        /\ lastStore' = [candidates |-> candidates,
                         fallback |-> stored.fallback,
                         n |-> lastStore.n + 1,
                         repeated |-> /\ lastStore.n > 0
                                      /\ candidates = lastStore.candidates]
        /\ everStored' = everStored
                \cup {row.arxiv_id : row \in stored.table \ papers}
        /\ UNCHANGED <<txAborts, lastPass>>

\* ---------------------------------------------- ingest_papers_for_categories
ARXIV_CATEGORIES == <<"cs.CL", "cs.AI", "cs.LG">>

\* the categories of the run: the first NumCategories, by their index
Categories == DOMAIN SubSeq(ARXIV_CATEGORIES, 1, NumCategories)

\* store_papers(papers, db) for the papers fetch_papers returned, and the
\* loop's step to the next category
StoreFetched ==
    /\ ipc = "returned"
    /\ Store(calls[cat].result)
    /\ IF cat < NumCategories
       THEN /\ cat' = cat + 1
            /\ attempt' = 0
            /\ ipc' = "fetch"
       ELSE /\ ipc' = "done"
            /\ UNCHANGED <<cat, attempt>>
    /\ UNCHANGED <<max_retries, calls, sinceRequest, gap, clock, users,
                   pollVars, jobVars, apiVars, calcVars>>

\* a store_papers call of its own
StoreCall(candidates) ==
    /\ ipc = "idle"
    /\ lastStore.n < MaxStores
    /\ Store(candidates)
    /\ UNCHANGED <<fetchVars, clock, users, pollVars, jobVars, apiVars,
                   calcVars>>

\* the dispatcher, the jobs, the API and the calculator at rest
OthersIdle ==
    /\ clock = StartInstant
    /\ users = [u \in Users |-> NoRow]
    /\ pc = [p \in Pollers |-> "idle"]
    /\ now = [p \in Pollers |-> NoTime]
    /\ users_due = [p \in Pollers |-> {}]
    /\ todo = [p \in Pollers |-> {}]
    /\ session = [p \in Pollers |-> [u \in Users |-> NoRow]]
    /\ seen = [p \in Pollers |-> [u \in Users |-> NoRow]]
    /\ enqueued = [p \in Pollers |-> [u \in Users |-> 0]]
    /\ queue = [u \in Users |-> 0]
    /\ lastJob = NoJob
    /\ apiCalls = 0
    /\ apiLimit = MaxApiCalls
    /\ calcFrequency = "DAILY"
    /\ calcNow = NoTime
    /\ calcResult = NoTime

\* a row that was stored earlier and has got its TL;DR and its embedding
SummarisedRow ==
    [PaperRow(1, ParseEntry(Entry1)) EXCEPT !.summary = "tldr",
                                            !.embedding = "vector"]

StoreTables == {{}, {SummarisedRow}}

\* one fetch_papers call on its own, for every max_retries
FetchInit ==
    /\ OthersIdle
    /\ papers = {}
    /\ ipc = "fetch"
    /\ cat = 1
    /\ attempt = 0
    /\ max_retries \in 0 .. MaxRetriesBound
    /\ calls = [c \in {1} |-> NoCall]
    /\ sinceRequest = NoTime
    /\ gap = NoTime
    /\ txAborts = TRUE
    /\ lastStore = NoStore
    /\ everStored = {}
    /\ lastPass = NoPass

FetchNext ==
    \/ \E outcome \in Outcomes, latency \in Latencies :
            FetchAttempt(outcome, latency)
    \/ FetchNoAttempt

FetchSpec == FetchInit /\ [][FetchNext]_vars

\* one run of ingest_papers_for_categories: fetch_papers is called with
\* its default max_retries; the database is the PostgreSQL of DATABASE_URL
IngestInit ==
    /\ OthersIdle
    /\ papers \in StoreTables
    /\ ipc = "fetch"
    /\ cat = 1
    /\ attempt = 0
    /\ max_retries = DefaultMaxRetries
    /\ calls = [c \in Categories |-> NoCall]
    /\ sinceRequest = NoTime
    /\ gap = NoTime
    /\ txAborts = TRUE
    /\ lastStore = NoStore
    /\ everStored = {}
    /\ lastPass = NoPass

IngestNext ==
    \/ \E outcome \in Outcomes, latency \in Latencies :
            FetchAttempt(outcome, latency)
    \/ StoreFetched

IngestSpec == IngestInit /\ [][IngestNext]_vars

\* store_papers calls on their own
CandidateNoKey ==
    [arxiv_id |-> "NULL", title |-> "t5", authors |-> "au5",
     summary |-> "s5", category |-> "cs.AI", published_at |-> 5]

Candidates ==
    {ParseEntry(Entry1), ParseEntry(Entry1Again), ParseEntry(Entry2),
     CandidateNoKey}

MaxCandidates == 3

CandidateLists ==
    UNION {[1 .. k -> Candidates] : k \in 0 .. MaxCandidates}

StoreInit ==
    /\ OthersIdle
    /\ papers \in StoreTables
    /\ ipc = "idle"
    /\ cat = 0
    /\ attempt = 0
    /\ max_retries = 0
    /\ calls = <<>>
    /\ sinceRequest = NoTime
    /\ gap = NoTime
    /\ txAborts \in BOOLEAN
    /\ lastStore = NoStore
    /\ everStored = {row.arxiv_id : row \in papers}
    /\ lastPass = NoPass

StoreNext == \E candidates \in CandidateLists : StoreCall(candidates)

StoreSpec == StoreInit /\ [][StoreNext]_vars

\* ---------------------------------------------- process_unsummarized_papers
\* a row that has no summary: one inserted with its abstract and without
\* the column summary
UnsummarisedRow(id, arxiv_id) ==
    [id |-> id, arxiv_id |-> arxiv_id, title |-> "t", authors |-> "au",
     summary |-> "NULL", category |-> "cs.AI", published_at |-> 1,
     embedding |-> "NULL"]

\* the papers generate_summary fails for, each time it is called
Broken == {"b1", "b2"}

BackfillRows ==
    {UnsummarisedRow(1, "b1"), UnsummarisedRow(2, "b2"),
     UnsummarisedRow(3, "g1"), UnsummarisedRow(4, "g2")}

\* Paper.summary.is_(None)
Unsummarised(table) == {row \in table : row.summary = "NULL"}

\* what generate_summary does for a paper: it returns a summary and an
\* embedding ("ok"), it returns "", [] after an error of the provider
\* ("empty") or, as the mock of the tests, it raises ("raises")
SummaryOutcomes(row) ==
    IF row.arxiv_id \in Broken THEN {"empty", "raises"} ELSE {"ok"}

\* a loop body that stores what generate_summary returned, whatever it is
Summarised_StoresEmpty(row, outcome) ==
    IF outcome = "ok"
    THEN [row EXCEPT !.summary = "tldr", !.embedding = "vector"]
    ELSE [row EXCEPT !.summary = "", !.embedding = "empty"]

\* the loop body: if summary: paper.summary = summary;
\* paper.embedding = embedding
Summarised(row, outcome) ==
    IF outcome = "ok"
    THEN [row EXCEPT !.summary = "tldr", !.embedding = "vector"]
    ELSE row

\* One call of process_unsummarized_papers(limit).  The query has no ORDER
\* BY: selected is any limit of the rows without summary (all of them when
\* they are fewer), in any order.  failure is what generate_summary does
\* for the broken papers in this call, position the place in the query's
\* result of the first paper that makes it raise, commits whether
\* db.commit() succeeds.  An exception ends in db.rollback().
process_unsummarized_papers(limit, selected, failure, position, commits) ==
    /\ ipc = "idle"
    /\ selected \subseteq Unsummarised(papers)
    /\ Cardinality(selected) =
          IF Cardinality(Unsummarised(papers)) < limit
          THEN Cardinality(Unsummarised(papers)) ELSE limit
    /\ \A row \in selected : row.arxiv_id \in Broken
                                  => failure \in SummaryOutcomes(row)
    /\ LET raises == /\ failure = "raises"
                      /\ \E row \in selected : row.arxiv_id \in Broken
           good == {row \in selected : row.arxiv_id \notin Broken}
       IN  /\ position \in
                 IF raises THEN 1 .. (Cardinality(good) + 1)
                 ELSE {Cardinality(selected)}
           /\ papers' =
                 IF raises \/ ~commits THEN papers
                 ELSE (papers \ selected) \cup
                      {Summarised(row,
                           IF row.arxiv_id \in Broken THEN failure ELSE "ok") :
                         row \in selected}
           /\ lastPass' = [limit |-> limit,
                           selected |-> {row.arxiv_id : row \in selected},
                           calls |-> position,
                           outcome |-> IF raises \/ ~commits
                                       THEN "rolled_back" ELSE "committed",
                           raised |-> FALSE]
    /\ UNCHANGED <<fetchVars, txAborts, lastStore, everStored, clock, users,
                   pollVars, jobVars, apiVars, calcVars>>

\* passes over a table of rows without summary
BackfillInit ==
    /\ OthersIdle
    /\ papers \in SUBSET BackfillRows
    /\ ipc = "idle"
    /\ cat = 0
    /\ attempt = 0
    /\ max_retries = 0
    /\ calls = <<>>
    /\ sinceRequest = NoTime
    /\ gap = NoTime
    /\ txAborts = TRUE
    /\ lastStore = NoStore
    /\ everStored = {}
    /\ lastPass = NoPass

BackfillPass ==
    \E limit \in 1 .. MaxLimit, selected \in SUBSET papers,
       failure \in {"empty", "raises"}, position \in 0 .. MaxLimit,
       commits \in BOOLEAN :
        process_unsummarized_papers(limit, selected, failure, position, commits)

BackfillNext == BackfillPass

BackfillSpec == BackfillInit /\ [][BackfillNext]_vars

\* a pass in which nothing raises and the commit succeeds
BackfillPassCommitted ==
    \E limit \in 1 .. MaxLimit, selected \in SUBSET papers :
        process_unsummarized_papers(limit, selected, "empty",
                                    Cardinality(selected), TRUE)

\* the passes under the schedule of Celery beat: a pass is run again and
\* again, and again and again one of them reaches its commit
BackfillLiveSpec ==
    /\ BackfillInit
    /\ [][BackfillNext]_vars
    /\ WF_vars(BackfillPass)
    /\ WF_vars(BackfillPassCommitted)

\* ------------------------------------------- the delivery job on its own
\* the papers ingestion has stored: (arxiv_id, category, published_at);
\* two share a published_at, one has none (the feed entry had no
\* <published> element)
JobPaperUniverse ==
    { [arxiv_id |-> 1, category |-> "cs.AI", published_at |-> 1],
      [arxiv_id |-> 2, category |-> "cs.AI", published_at |-> 2],
      [arxiv_id |-> 3, category |-> "cs.AI", published_at |-> 3],
      [arxiv_id |-> 4, category |-> "cs.AI", published_at |-> 3],
      [arxiv_id |-> 5, category |-> "cs.AI", published_at |-> 4],
      [arxiv_id |-> 6, category |-> "cs.AI", published_at |-> 5],
      [arxiv_id |-> 7, category |-> "cs.LG", published_at |-> 6],
      [arxiv_id |-> 8, category |-> "cs.AI", published_at |-> NoTime] }

JobCategories == { {"cs.AI"}, {"cs.AI", "cs.LG"}, {"cs.CV"} }

\* a job is queued for user 1, an active recipient whose next_digest_at
\* the dispatcher has advanced, and for every other id, which has no row
JobInit ==
    /\ clock = StartInstant
    /\ \E c \in JobCategories :
          users = [u \in Users |->
                     IF u = 1
                     THEN [id |-> u, email |-> u, name |-> "NULL",
                           frequency |-> "DAILY",
                           next_digest_at |-> StartInstant + TicksPerDay,
                           is_active |-> TRUE, categories |-> c]
                     ELSE NoRow]
    /\ papers \in SUBSET JobPaperUniverse
    /\ pc = [p \in Pollers |-> "idle"]
    /\ now = [p \in Pollers |-> NoTime]
    /\ users_due = [p \in Pollers |-> {}]
    /\ todo = [p \in Pollers |-> {}]
    /\ session = [p \in Pollers |-> [u \in Users |-> NoRow]]
    /\ seen = [p \in Pollers |-> [u \in Users |-> NoRow]]
    /\ enqueued = [p \in Pollers |-> [u \in Users |-> 0]]
    /\ queue = [u \in Users |-> 1]
    /\ lastJob = NoJob
    /\ apiCalls = 0
    /\ apiLimit = MaxApiCalls
    /\ calcFrequency = "NULL"
    /\ calcNow = NoTime
    /\ calcResult = NoTime
    /\ IngestIdle

JobNext ==
    \/ \E u \in Users, mailer \in BOOLEAN : send_digest_email_task(u, mailer)
    \/ \E u \in Users : unsubscribe(u)

JobSpec == JobInit /\ [][JobNext]_vars

\* =====================================================================
\* Claims about the dispatcher, checked under Spec
\* =====================================================================

\* the recipients a query at instant t must select from table
ActiveAndElapsed(table, t) ==
    {u \in Users : /\ table[u].id # 0
                   /\ table[u].is_active
                   /\ table[u].next_digest_at # NoTime
                   /\ table[u].next_digest_at <= t}

\* C1: a run of check_digest_schedule that observed instant now selects
\* exactly the recipients that were active with next_digest_at <= now when
\* it queried; it enqueues one job for each of them as its loop reaches
\* them (so one job each once the loop has ended) and none for anyone else.
C1_ExactlyTheDue ==
    \A p \in Pollers :
        pc[p] = "loop" =>
            /\ users_due[p] = ActiveAndElapsed(seen[p], now[p])
            /\ \A u \in Users :
                 enqueued[p][u] = IF u \in users_due[p] \ todo[p] THEN 1 ELSE 0

\* a run whose loop has ended with one recipient dispatched and another,
\* active but not yet due, left alone
C1_Witness ==
    \E p \in Pollers, u, v \in Users :
        /\ pc[p] = "loop" /\ todo[p] = {}
        /\ enqueued[p][u] = 1
        /\ seen[p][v].is_active /\ seen[p][v].next_digest_at > now[p]
        /\ enqueued[p][v] = 0

\* C2: two concurrent runs never both enqueue a job for the same recipient
\* for the same due instant.
C2_NoDoubleClaim ==
    \A p, q \in Pollers : \A u \in Users :
        (/\ p # q
         /\ pc[p] = "loop" /\ pc[q] = "loop"
         /\ seen[p][u].next_digest_at = seen[q][u].next_digest_at)
        => ~(enqueued[p][u] > 0 /\ enqueued[q][u] > 0)

\* C3: two runs of check_digest_schedule are never in progress at once.
C3_OneCycleAtATime ==
    \A p, q \in Pollers : (pc[p] = "loop" /\ pc[q] = "loop") => p = q

\* C4: a recipient that is inactive when a run queries is not selected by
\* that run, whatever its next_digest_at: the run enqueues no job for it,
\* holds no change for it, and the step that ends the run leaves its
\* next_digest_at as it was.
C4_InactiveNeverSelected ==
    [][\A p \in Pollers : \A u \in Users :
          (pc[p] = "loop" /\ seen[p][u].id # 0 /\ ~seen[p][u].is_active)
          => /\ u \notin users_due[p]
             /\ enqueued[p][u] = 0
             /\ session[p][u] = NoRow
             /\ (pc'[p] # "loop"
                   => users'[u].next_digest_at = users[u].next_digest_at)]_vars

\* a run that dispatched someone while an inactive recipient's
\* next_digest_at had long elapsed
C4_Witness ==
    \E p \in Pollers, u, v \in Users :
        /\ pc[p] = "loop" /\ todo[p] = {}
        /\ seen[p][u].id # 0 /\ ~seen[p][u].is_active
        /\ seen[p][u].next_digest_at # NoTime
        /\ seen[p][u].next_digest_at + TicksPerHour <= now[p]
        /\ enqueued[p][v] = 1

\* C5: when a delivery job fails in the mail transport, the recipient is
\* due again or a job for it is pending.
C5_NoSilentSkip ==
    [][\A u \in Users :
          (/\ send_digest_email_task(u, FALSE)
           /\ lastJob'.mail = "failed")
          => (queue'[u] > 0 \/ u \in ActiveAndElapsed(users', clock'))]_vars

\* C6: when the commit of a run fails, the step changes no row, and every
\* recipient of the run whose row nobody else changed is still selected by
\* a query from then on.
C6_CommitFailureRollsBack ==
    [][\A p \in Pollers :
          (pc[p] = "loop" /\ todo[p] = {} /\ pc'[p] = "commit_failed")
          => /\ users' = users
             /\ \A u \in users_due[p] :
                  users[u] = seen[p][u] => u \in ActiveAndElapsed(users', clock')]_vars

\* a run failed at its commit after enqueueing jobs: the jobs are queued
\* and their recipients still due
C6_Witness ==
    \E p \in Pollers, u \in Users :
        /\ pc[p] = "commit_failed"
        /\ queue[u] > 0
        /\ u \in ActiveAndElapsed(users, clock)

\* C7: a recipient that is active with an elapsed next_digest_at gets a job
\* enqueued by some run, unless it stops being so without a run (it is
\* unsubscribed or registered anew).
C7_NoStarvation ==
    \A u \in Users :
        (u \in ActiveAndElapsed(users, clock))
        ~> (\/ \E p \in Pollers : enqueued[p][u] > 0
            \/ u \notin ActiveAndElapsed(users, clock))

\* a run has enqueued a job for a recipient that was not due at the start
\* and became due as time passed
C7_Witness ==
    \E p \in Pollers, u \in Users :
        /\ enqueued[p][u] > 0
        /\ seen[p][u].next_digest_at > StartInstant
        /\ seen[p][u].frequency = "DAILY"

\* C9: the next_digest_at a run holds for a dispatched recipient is the
\* calculator's result for the recipient's cadence at the run's own now.
C9_UsesPollInstant ==
    \A p \in Pollers :
        pc[p] = "loop" =>
            \A u \in users_due[p] \ todo[p] :
                session[p][u].next_digest_at =
                    calculate_next_digest_time(session[p][u].frequency, now[p])

\* =====================================================================
\* Claims about the calculator, checked under CalcSpec
\* =====================================================================

\* C8: for every cadence and every reference instant the calculator's
\* result is strictly later than the reference instant.
C8_StrictlyLater ==
    calcResult # NoTime => calcResult > calcNow

\* the calculator applied to a December instant with a sub-second part,
\* monthly
C8_Witness ==
    /\ calcResult # NoTime
    /\ calcFrequency = "MONTHLY"
    /\ Month(calcNow) = 12
    /\ Microsecond(calcNow) # 0

\* C10 as stated: DAILY is the reference instant plus exactly one day,
\* WEEKLY plus exactly seven days.
C10_ExactlyPlusDays ==
    calcResult # NoTime =>
        /\ calcFrequency = "DAILY" => calcResult = calcNow + TicksPerDay
        /\ calcFrequency = "WEEKLY" => calcResult = calcNow + 7 * TicksPerDay

\* C10 amended: DAILY is the reference instant cut to its whole second plus
\* exactly one day, WEEKLY plus exactly seven days; hour, minute and second
\* are those of the reference instant and the sub-second part is zero.
C10_WholeSecondPlusDays ==
    calcResult # NoTime =>
        LET whole == calcNow - Microsecond(calcNow)
            same == /\ Hour(calcResult) = Hour(calcNow)
                    /\ Minute(calcResult) = Minute(calcNow)
                    /\ Second(calcResult) = Second(calcNow)
                    /\ Microsecond(calcResult) = 0
        IN  /\ calcFrequency = "DAILY" =>
                 (calcResult = whole + TicksPerDay /\ same)
            /\ calcFrequency = "WEEKLY" =>
                 (calcResult = whole + 7 * TicksPerDay /\ same)

\* the calculator applied, weekly, to an instant with a sub-second part
C10_Witness ==
    /\ calcResult # NoTime
    /\ calcFrequency = "WEEKLY"
    /\ Microsecond(calcNow) # 0
    /\ Hour(calcNow) = 23

\* the calendar month after the month of instant t, and its year
FollowingMonth(t) == IF Month(t) = 12 THEN 1 ELSE Month(t) + 1
FollowingMonthYear(t) == IF Month(t) = 12 THEN Year(t) + 1 ELSE Year(t)

\* the result is in the month after the reference instant's, on the
\* reference day of the month or on that month's last day if it is shorter
C11_NextMonthClamped ==
    /\ Year(calcResult) = FollowingMonthYear(calcNow)
    /\ Month(calcResult) = FollowingMonth(calcNow)
    /\ LET last == monthrange(FollowingMonthYear(calcNow), FollowingMonth(calcNow))
       IN  Day(calcResult) = IF Day(calcNow) < last THEN Day(calcNow) ELSE last

\* C11 as stated: for MONTHLY the result is in the following calendar month
\* (December rolls to January of the next year), on day min(reference day,
\* last day of that month), at the time of day of the reference instant.
C11_MonthlySameTimeOfDay ==
    (calcResult # NoTime /\ calcFrequency = "MONTHLY") =>
        /\ C11_NextMonthClamped
        /\ calcResult % TicksPerDay = calcNow % TicksPerDay

\* C11 amended: for MONTHLY the result is in the following calendar month
\* (December rolls to January of the next year), on day min(reference day,
\* last day of that month), at the hour, minute and second of the reference
\* instant with the sub-second part zero.
C11_MonthlyWholeSecond ==
    (calcResult # NoTime /\ calcFrequency = "MONTHLY") =>
        /\ C11_NextMonthClamped
        /\ Hour(calcResult) = Hour(calcNow)
        /\ Minute(calcResult) = Minute(calcNow)
        /\ Second(calcResult) = Second(calcNow)
        /\ Microsecond(calcResult) = 0

\* the calculator applied, monthly, to 31 January of a leap year: the
\* result is 29 February
C11_Witness ==
    /\ calcFrequency = "MONTHLY"
    /\ IsLeap(Year(calcNow)) /\ Month(calcNow) = 1 /\ Day(calcNow) = 31
    /\ calcResult # NoTime
    /\ Month(calcResult) = 2 /\ Day(calcResult) = 29

\* C12 as stated: for a recipient whose frequency is unset the result is
\* the result for DAILY, which is the reference instant plus one day at
\* the same time of day.
C12_UnsetIsReferencePlusDay ==
    (calcResult # NoTime /\ calcFrequency = "NULL") =>
        /\ calcResult = calculate_next_digest_time("DAILY", calcNow)
        /\ calcResult = calcNow + TicksPerDay

\* C12 amended: for a recipient whose frequency is unset the calculator
\* returns an instant, the one it returns for DAILY: the reference instant
\* cut to its whole second plus one day.
C12_UnsetIsDaily ==
    (calcFrequency = "NULL" /\ calcNow # NoTime /\ calcResult # NoTime) =>
        /\ calcResult = calculate_next_digest_time("DAILY", calcNow)
        /\ calcResult = (calcNow - Microsecond(calcNow)) + TicksPerDay

\* the calculator applied with no frequency to the last second of a
\* February
C12_Witness ==
    /\ calcFrequency = "NULL"
    /\ calcResult # NoTime
    /\ Month(calcNow) = 2 /\ Month(calcResult) = 3
    /\ Hour(calcNow) = 23 /\ Microsecond(calcNow) # 0

\* =====================================================================
\* Claims about the delivery job, checked under JobSpec
\* =====================================================================

\* the job that ran in this step for user u called the mailer
Mailed(u) ==
    /\ \E mailer \in BOOLEAN : send_digest_email_task(u, mailer)
    /\ lastJob'.mail \in {"sent", "failed"}

\* content is a list without repetition of DigestLimit stored papers of
\* row's categories (of all of them if they are fewer)
IsSelection(content, row) ==
    LET matching == {q \in papers : q.category \in row.categories}
    IN  /\ \A i \in 1 .. Len(content) : content[i] \in matching
        /\ \A i, j \in 1 .. Len(content) : content[i] = content[j] => i = j
        /\ Len(content) = IF Cardinality(matching) < DigestLimit
                          THEN Cardinality(matching) ELSE DigestLimit

\* q is at least as new as r; a paper without published_at counts as
\* older than every dated one, or as newer if undatedFirst
AsNewAs(q, r, undatedFirst) ==
    IF q.published_at = NoTime THEN undatedFirst \/ r.published_at = NoTime
    ELSE IF r.published_at = NoTime THEN ~undatedFirst
    ELSE q.published_at >= r.published_at

\* content holds the newest matching papers, newest first
IsNewestFirst(content, row, undatedFirst) ==
    LET matching == {q \in papers : q.category \in row.categories}
        chosen == {content[i] : i \in 1 .. Len(content)}
    IN  /\ \A i, j \in 1 .. Len(content) :
               i < j => AsNewAs(content[i], content[j], undatedFirst)
        /\ \A q \in chosen, r \in matching \ chosen : AsNewAs(q, r, undatedFirst)

\* C13 as stated: the papers a job passes to the mailer for recipient R are
\* exactly the (at most 5) stored papers of R's categories with the latest
\* published_at, newest first; none is of a category outside R.categories.
C13_LatestFive ==
    [][\A u \in Users :
          Mailed(u) => /\ IsSelection(lastJob'.papers, users[u])
                       /\ IsNewestFirst(lastJob'.papers, users[u], FALSE)]_vars

\* C13 amended: the papers a job passes to the mailer for recipient R are
\* (at most 5) stored papers of R's categories, none of another category,
\* the first of the matching papers in descending order of published_at,
\* an order in which a paper without published_at comes before every
\* dated one.
C13_FirstFiveUndatedFirst ==
    [][\A u \in Users :
          Mailed(u) => /\ IsSelection(lastJob'.papers, users[u])
                       /\ IsNewestFirst(lastJob'.papers, users[u], TRUE)]_vars

\* a job mailed five papers while seven of the recipient's categories were
\* stored, one of them undated, and one of another category
C13_Witness ==
    /\ lastJob.mail = "sent"
    /\ Len(lastJob.papers) = DigestLimit
    /\ queue[1] = 0 /\ apiCalls = 0
    /\ users[1].categories = {"cs.AI"}
    /\ Cardinality(MatchingPapers(users[1])) = 7
    /\ \E q \in papers : q.category = "cs.LG"

\* C15: a job whose recipient has no row or is inactive when the job runs
\* sends no email and returns False.
C15_GoneOrInactiveSkipped ==
    [][\A u \in Users : \A mailer \in BOOLEAN :
          (/\ send_digest_email_task(u, mailer)
           /\ (users[u].id = 0 \/ ~users[u].is_active))
          => /\ lastJob'.mail = "skipped"
             /\ lastJob'.result = FALSE
             /\ lastJob'.papers = <<>>]_vars

\* the job of a recipient with matching papers stored, unsubscribed while
\* the job was queued, has run and mailed nothing (the other job is still
\* queued)
C15_Witness ==
    /\ lastJob.mail = "skipped"
    /\ queue[1] = 0
    /\ \A u \in Users \ {1} : queue[u] = 1
    /\ users[1].id # 0 /\ ~users[1].is_active
    /\ MatchingPapers(users[1]) # {}

\* =====================================================================
\* Claims about a poll and its jobs, checked under DigestSpec
\* =====================================================================

\* C14: a job that finds no stored paper of its (active) recipient's
\* categories sends no email and returns, without an error, leaving every
\* row as it is, the recipient's advanced next_digest_at included; and a
\* run enqueues a job only for a recipient whose next_digest_at it saw
\* elapsed, so there is no further job before the advanced instant.
C14_NoMatchIsNoOp ==
    /\ [][\A u \in Users : \A mailer \in BOOLEAN :
             (/\ send_digest_email_task(u, mailer)
              /\ users[u].id # 0 /\ users[u].is_active
              /\ MatchingPapers(users[u]) = {})
             => /\ lastJob' = [mail |-> "skipped", result |-> FALSE, papers |-> <<>>]
                /\ users' = users]_vars
    /\ [](\A p \in Pollers : \A u \in Users :
             enqueued[p][u] > 0 => seen[p][u].next_digest_at <= now[p])

\* a run committed the advance of a recipient, whose job then found no
\* paper of its category: the recipient is active and not due
C14_Witness ==
    \E p \in Pollers, u \in Users :
        /\ pc[p] = "done"
        /\ lastJob.mail = "skipped"
        /\ apiCalls = 0 /\ \A v \in Users : queue[v] = 0
        /\ users[u].is_active /\ MatchingPapers(users[u]) = {}
        /\ users[u].next_digest_at > clock + TicksPerHour
        /\ u \notin DueQuery(users, clock)

\* C16: a job that fails in the mail transport changes no row, no paper,
\* no run of check_digest_schedule and no other recipient's queued job:
\* what the poll committed stays and the other jobs are still to run.
C16_MailFailureIsolated ==
    [][\A u \in Users :
          (/\ send_digest_email_task(u, FALSE)
           /\ lastJob'.mail = "failed")
          => /\ users' = users
             /\ papers' = papers
             /\ pollVars' = pollVars
             /\ \A v \in Users \ {u} : queue'[v] = queue[v]]_vars

\* one job of a committed run failed in the mail transport while the job
\* of another recipient of that run is queued and will find its paper
C16_Witness ==
    \E p \in Pollers, v \in Users :
        /\ pc[p] = "done"
        /\ lastJob.mail = "failed"
        /\ queue[v] > 0
        /\ users[v].is_active /\ MatchingPapers(users[v]) # {}
        /\ \A u \in Users : users[u].next_digest_at > clock

\* C17: when the query of a run fails, the run ends without an exception
\* leaving check_digest_schedule, and no row has changed.
C17_QueryFailureReturns ==
    [][\A p \in Pollers :
          PollQueryFail(p) => (pc'[p] \notin Raised /\ users' = users)]_vars

\* C18: a step of a run of check_digest_schedule changes no paper and, of
\* the rows, nothing but next_digest_at, and that only for recipients the
\* run has dispatched, at its commit.
C18_OnlyNextDigestAt ==
    [][pollVars' # pollVars =>
          /\ papers' = papers
          /\ \A u \in Users :
               /\ users'[u] = [users[u] EXCEPT
                                 !.next_digest_at = users'[u].next_digest_at]
               /\ users'[u].next_digest_at # users[u].next_digest_at
                    => \E p \in Pollers :
                          /\ pc[p] = "loop" /\ pc'[p] = "done"
                          /\ enqueued[p][u] > 0]_vars

\* a run committed a daily advance for a recipient that registered anew,
\* weekly and with other categories, between the run's query and its
\* commit, while another recipient was not due and kept its row
C18_Witness ==
    \E p \in Pollers, u, v \in Users :
        /\ pc[p] = "done"
        /\ users[u].frequency = "WEEKLY" /\ users[u].categories = {"cs.LG"}
        /\ users[u].next_digest_at > clock
        /\ users[u].next_digest_at < clock + 2 * TicksPerDay
        /\ users[v] = InitRow(v, FALSE, TRUE)

\* =====================================================================
\* Claims about the registration and profile calls, checked under ApiSpec
\* =====================================================================

\* C19: a register call, which stores the request's frequency, and a call
\* that changes the frequency of a stored recipient leave next_digest_at
\* equal to the calculator's result for the new frequency at the instant
\* of the call, which is not earlier than that instant.
C19_ScheduleFollowsCadence ==
    [][\A u \in Users :
          /\ \A r \in ApiRegisterRequests :
               (/\ apiCalls' = apiCalls + 1
                /\ users'[u].categories = r.categories
                /\ users'[u].frequency = r.frequency
                /\ register_user(u, r))
               => /\ users'[u].next_digest_at =
                        calculate_next_digest_time(r.frequency, clock)
                  /\ users'[u].next_digest_at >= clock
          /\ (users[u].id # 0 /\ users'[u].frequency # users[u].frequency)
               => /\ users'[u].next_digest_at =
                        calculate_next_digest_time(users'[u].frequency, clock)
                  /\ users'[u].next_digest_at >= clock]_vars

\* an update_profile call at 09:15:00 on 30 January of a leap year has
\* changed a recipient's frequency to MONTHLY: its digest is due at
\* 09:15:00 on 29 February
C19_Witness ==
    \E u \in Users :
        /\ users[u].frequency = "MONTHLY"
        /\ users[u].categories = {"cs.AI"}
        /\ users[u].next_digest_at =
              datetime(BaseYear + 1, 2, 29, 9, 15, 0)

\* C20: every stored recipient has a non-empty set of categories.
C20_CategoriesNonEmpty ==
    \A u \in Users : users[u].id # 0 => users[u].categories # {}


\* ============================================== claims about ingestion
\* the kinds of the attempts a call has made so far
Kinds(call) == {call.log[i].kind : i \in 1 .. Len(call.log)}

\* C21: for max_retries = n >= 1, a fetch_papers call all of whose attempts
\* fail with a timeout or an HTTP error never waits more than n - 1 times,
\* and when it has ended it has made exactly n attempts and n - 1 waits and
\* has returned the empty list to its caller.
C21_ExhaustedAfterNAttempts ==
    \A c \in DOMAIN calls :
        (max_retries >= 1 /\ Kinds(calls[c]) \subseteq {"timeout", "http_error"})
            => /\ Len(calls[c].waits) <= max_retries - 1
               /\ Len(calls[c].log) <= max_retries
               /\ (c = cat /\ ipc # "fetch")
                    => /\ Len(calls[c].log) = max_retries
                       /\ Len(calls[c].waits) = max_retries - 1
                       /\ calls[c].end = "exhausted"
                       /\ calls[c].result = <<>>
                       /\ ipc = "returned"

C21_Witness ==
    /\ max_retries = 3
    /\ ipc = "returned"
    /\ Kinds(calls[1]) = {"timeout"}
    /\ Len(calls[1].log) = 3
    /\ calls[1].waits = <<5, 10>>

\* the backoff of the docstring, in seconds
ExpectedWaits == <<5, 10, 20, 40, 80, 160>>

\* C23: the k-th wait of a fetch_papers call (before retry attempt k + 1,
\* k counted from 0) is 5 * 2^k seconds, and every failed attempt that is
\* not the last is followed by one, whatever its exception.
C23_ExponentialBackoff ==
    \A c \in DOMAIN calls :
        /\ \A k \in 1 .. Len(calls[c].waits) :
                calls[c].waits[k] = ExpectedWaits[k]
        /\ Len(calls[c].waits) =
                IF calls[c].end = "none" \/ calls[c].log = <<>>
                THEN Len(calls[c].log)
                ELSE Len(calls[c].log) - 1

C23_Witness ==
    /\ max_retries = 4
    /\ Len(calls[1].log) = 3
    /\ calls[1].log[1].kind = "timeout"
    /\ calls[1].log[2].kind = "http_error"
    /\ calls[1].log[3].kind = "other"
    /\ calls[1].waits = <<5, 10, 20>>

\* C22: between two successive requests to the feed in one run of
\* ingest_papers_for_categories at least 3 seconds pass.
C22_ThreeSecondsBetweenRequests ==
    gap # NoTime => gap >= RateLimitSleep * SubSec

\* the papers a response holds: those of its entries that have an id
WithId(entries) ==
    LET kept == SelectSeq(entries, LAMBDA e : e.id # <<>>)
    IN  [i \in 1 .. Len(kept) |-> ParseEntry(kept[i])]

\* C24: when a run of ingest_papers_for_categories is over, fetch_papers
\* has returned for every configured category, store_papers has been
\* called once per category, and every paper a fetch returned has a row;
\* the run has not ended before its last category.
C24_EveryCategoryFetchedAndStored ==
    /\ ipc = "done" =>
          /\ cat = NumCategories
          /\ lastStore.n = NumCategories
          /\ \A c \in Categories :
                /\ calls[c].end \in {"success", "exhausted"}
                /\ \A i \in 1 .. Len(calls[c].result) :
                      Exists(papers, calls[c].result[i].arxiv_id)
    /\ \A c \in DOMAIN calls :
          c < cat => calls[c].end \in {"success", "exhausted"}

\* the first category's fetch failed on all three attempts, the second
\* one's succeeded and its papers are stored
C24_Witness ==
    /\ ipc = "done"
    /\ calls[1].end = "exhausted"
    /\ Kinds(calls[1]) = {"http_error", "timeout"}
    /\ Len(calls[1].log) = DefaultMaxRetries
    /\ calls[NumCategories].end = "success"
    /\ Len(calls[NumCategories].result) = 2
    /\ \E row \in papers : row.arxiv_id = "a2"

\* C25: a fetch_papers call makes at most max_retries requests and ends in
\* success, with the papers parsed from the response of its last request,
\* or exhausted, with the empty list; an attempt counts as successful when
\* its response was received and parsed.  A call that has ended makes no
\* request any more.
C25_TerminatesWithinMaxRetries ==
    [][\A c \in DOMAIN calls :
          /\ Len(calls'[c].log) <= max_retries
          /\ calls'[c].end \in {"none", "success", "exhausted"}
          /\ calls'[c].end = "success"
                => /\ \A i \in 1 .. Len(calls'[c].log) :
                          calls'[c].log[i].kind = "ok" <=> i = Len(calls'[c].log)
                   /\ calls'[c].result =
                          WithId(calls'[c].log[Len(calls'[c].log)].response.entries)
          /\ calls'[c].end = "exhausted"
                => /\ calls'[c].result = <<>>
                   /\ Len(calls'[c].log) = max_retries
                   /\ "ok" \notin Kinds(calls'[c])
          /\ calls[c].end # "none" => calls'[c] = calls[c]]_vars

\* a call that succeeded at its third and last attempt
C25_Witness ==
    /\ max_retries = 3
    /\ ipc = "returned"
    /\ calls[1].end = "success"
    /\ Len(calls[1].log) = 3
    /\ Len(calls[1].result) = 2

\* C26: the parse of a feed keeps every entry that has an id and drops the
\* others: an attempt that received a feed ends the call with the papers
\* of the entries that have an id, fields that are missing empty or null.
C26_EntryWithoutIdDropped ==
    \A c \in DOMAIN calls : \A i \in 1 .. Len(calls[c].log) :
        calls[c].log[i].response.xml
            => /\ calls[c].log[i].kind = "ok"
               /\ calls[c].end = "success"
               /\ calls[c].result = WithId(calls[c].log[i].response.entries)

\* C27: an attempt whose response was received and failed its parse is
\* the last request of its fetch_papers call.
C27_ParseFailureNotRetried ==
    \A c \in DOMAIN calls : \A i \in 1 .. Len(calls[c].log) :
        calls[c].log[i].kind = "unparsable" => i = Len(calls[c].log)

\* C28: after any sequence of store_papers calls the table holds exactly
\* one row for every arxiv_id that was ever stored, and no two rows with
\* the same arxiv_id.
C28_OneRowPerArxivId ==
    /\ \A a \in everStored :
          Cardinality({row \in papers : row.arxiv_id = a}) = 1
    /\ \A row \in papers : row.arxiv_id \in everStored

\* the second of two calls with the same list, which names one arxiv_id
\* twice, has ended
C28_Witness ==
    /\ lastStore.n = 2
    /\ lastStore.repeated
    /\ Len(lastStore.candidates) = 3
    /\ lastStore.candidates[1].arxiv_id = "a1"
    /\ lastStore.candidates[2].arxiv_id = "a1"
    /\ lastStore.candidates[3].arxiv_id = "a2"
    /\ Cardinality(papers) = 2

\* C29: a store_papers call changes no field of a row that exists and
\* deletes no row.
C29_ExistingRowsUntouched ==
    [][\A row \in papers : row \in papers']_vars

\* a call has ended whose candidate has the arxiv_id of the row that has
\* its summary and embedding, with another title, category and summary
C29_Witness ==
    /\ SummarisedRow \in papers
    /\ \E i \in 1 .. Len(lastStore.candidates) :
          /\ lastStore.candidates[i].arxiv_id = SummarisedRow.arxiv_id
          /\ lastStore.candidates[i].title # SummarisedRow.title
          /\ lastStore.candidates[i].category # SummarisedRow.category
          /\ lastStore.candidates[i].summary # SummarisedRow.summary

\* C30: after a store_papers call whose first commit failed and whose list
\* has one candidate without arxiv_id, every other candidate has a row.
C30_FallbackKeepsWellFormed ==
    (/\ lastStore.fallback
     /\ Cardinality({i \in 1 .. Len(lastStore.candidates) :
            lastStore.candidates[i].arxiv_id = "NULL"}) = 1)
        => \A i \in 1 .. Len(lastStore.candidates) :
              lastStore.candidates[i].arxiv_id # "NULL"
                  => Exists(papers, lastStore.candidates[i].arxiv_id)

\* ================================== claims about jobs, polls and backfill
\* C38: a send_digest_email_task that returns True has sent its email.
C38_TrueOnlyIfSent ==
    lastJob.result = TRUE => lastJob.mail = "sent"

\* the arxiv_ids a list of candidates names more than once
Repeated(candidates) ==
    {candidates[i].arxiv_id : i \in
        {i \in 1 .. Len(candidates) :
            \E j \in 1 .. Len(candidates) :
                j # i /\ candidates[j].arxiv_id = candidates[i].arxiv_id}}

\* C40: a store_papers call whose candidates all have an arxiv_id and name
\* one of them more than once ends with exactly one row for each arxiv_id
\* of its list; when the repeated arxiv_id had no row, the first commit
\* has failed and the fallback has run, and the row has the values of the
\* first candidate with that arxiv_id.
C40_RepeatedIdStoredOnce ==
    [][(/\ lastStore'.n = lastStore.n + 1
        /\ Repeated(lastStore'.candidates) # {}
        /\ \A i \in 1 .. Len(lastStore'.candidates) :
              lastStore'.candidates[i].arxiv_id # "NULL")
       => /\ \A i \in 1 .. Len(lastStore'.candidates) :
                Cardinality({row \in papers' :
                    row.arxiv_id = lastStore'.candidates[i].arxiv_id}) = 1
          /\ \A a \in Repeated(lastStore'.candidates) :
                ~Exists(papers, a)
                    => /\ lastStore'.fallback
                       /\ \E row \in papers' :
                             /\ row.arxiv_id = a
                             /\ row.title =
                                  SelectSeq(lastStore'.candidates,
                                      LAMBDA c : c.arxiv_id = a)[1].title]_vars

\* a call with a new arxiv_id named twice and another new one after it has
\* gone through the fallback on a database that aborts transactions
C40_Witness ==
    /\ txAborts
    /\ lastStore.n = 1
    /\ lastStore.fallback
    /\ Len(lastStore.candidates) = 3
    /\ lastStore.candidates[1].arxiv_id = "a1"
    /\ lastStore.candidates[2].arxiv_id = "a1"
    /\ lastStore.candidates[2].title # lastStore.candidates[1].title
    /\ lastStore.candidates[3].arxiv_id = "a2"
    /\ Cardinality(papers) = 2

\* C34: a step that changes a recipient's next_digest_at in the table and
\* is not a request to the API is the commit of a run that has enqueued a
\* job for that recipient.
C34_AdvanceOnlyAfterEnqueue ==
    [][\A u \in Users :
          (/\ apiCalls' = apiCalls
           /\ users'[u].next_digest_at # users[u].next_digest_at)
          => \E p \in Pollers :
                /\ pc[p] = "loop" /\ pc'[p] = "done"
                /\ enqueued[p][u] >= 1]_vars

\* a run has committed the advance of a recipient whose job is queued
C34_Witness ==
    \E p \in Pollers :
        /\ pc[p] = "done"
        /\ queue[1] = 1
        /\ users[1].frequency = "DAILY"
        /\ users[1].next_digest_at > clock

\* C39: an active recipient whose next_digest_at is null is in no run's
\* query result and has no job on the queue.
C39_UnscheduledNeverSelected ==
    \A u \in Users :
        (users[u].id # 0 /\ users[u].next_digest_at = NoTime)
            => /\ queue[u] = 0
               /\ \A p \in Pollers : u \notin users_due[p] /\ enqueued[p][u] = 0

\* a run on the next day has selected the overdue recipient and left the
\* active recipient without next_digest_at alone
C39_Witness ==
    \E p \in Pollers :
        /\ pc[p] = "loop"
        /\ clock >= StartInstant + TicksPerDay
        /\ users_due[p] = {1}
        /\ seen[p][2].is_active
        /\ seen[p][2].next_digest_at = NoTime


C36_OneJobForMissedPeriods ==
    [][\A p \in Pollers :
          (pc[p] = "loop" /\ pc'[p] = "done")
          => \A u \in users_due[p] :
                /\ enqueued[p][u] = 1
                /\ users'[u].next_digest_at > now[p]
                /\ users'[u].next_digest_at > clock'
                /\ u \notin DueQuery(users', clock')]_vars

\* a run has committed for a weekly recipient that was 15 days behind:
\* one job, and the next one a week after the run
C36_Witness ==
    \E p \in Pollers :
        /\ pc[p] = "done"
        /\ clock <= StartInstant + 1
        /\ apiCalls = 0
        /\ users[1].frequency = "WEEKLY"
        /\ users[1].next_digest_at > clock + 6 * TicksPerDay
        /\ queue[1] = 1


C31_FailedStaysForRetry ==
    [][/\ ~lastPass'.raised
       /\ lastPass'.calls <= lastPass'.limit
       /\ \A row \in papers :
             (row.arxiv_id \in Broken /\ row.summary = "NULL")
                 => /\ row \in Unsummarised(papers')
                    /\ row.embedding = "NULL"
                    /\ Cardinality(Unsummarised(papers)) <= lastPass'.limit
                          => row.arxiv_id \in lastPass'.selected]_vars

\* a second pass has selected the paper whose summary failed in the first
\* and has summarised the other paper; the failed one is as it was
C31_Witness ==
    /\ lastPass.limit = 1
    /\ lastPass.selected = {"b1"}
    /\ lastPass.outcome = "committed"
    /\ UnsummarisedRow(1, "b1") \in papers
    /\ \E row \in papers : row.arxiv_id = "g1" /\ row.summary = "tldr"
    /\ Cardinality(papers) = 2

\* C32: every paper without summary for which generate_summary succeeds
\* gets its summary in the end.
C32_OthersEventuallySummarised ==
    \A id \in {"g1", "g2"} :
        (\E row \in papers : row.arxiv_id = id /\ row.summary = "NULL")
            ~> (\E row \in papers : row.arxiv_id = id /\ row.summary # "NULL")

\* C33: a row store_papers has inserted for an entry of the feed has a
\* null summary and a null embedding, so that the query of
\* process_unsummarized_papers selects it.
C33_IngestedAwaitsSummary ==
    \A row \in papers :
        row.arxiv_id \in everStored
            => /\ row.summary = "NULL"
               /\ row.embedding = "NULL"
               /\ row \in Unsummarised(papers)

====
